---- MODULE Spec2Model ----
(***************************************************************************)
(* A model of oop_notes.py: the Employee class with its two subclasses     *)
(* Developer and Manager, the class attributes they share, and the calls   *)
(* a client can make on them.                                              *)
(*                                                                         *)
(* Representation.                                                         *)
(*   - An object is a record of its instance attributes; objs is the heap  *)
(*     of all objects ever constructed and an object is named by its       *)
(*     index in it (Python compares these objects by identity, no __eq__   *)
(*     is defined).                                                        *)
(*   - A Python list is an index into the heap lists, so that two          *)
(*     managers can hold the same list object.                             *)
(*   - A str is a sequence of one-character strings.  None is the          *)
(*     sequence None below, which is no str.                               *)
(*   - A float multiplier is the integer number of its hundredths (1.07    *)
(*     is 107).  For the multipliers 1.02, 1.03, 1.07 and 1.09 used here   *)
(*     and every integer salary of magnitude up to 300000, Python's        *)
(*     int(salary * multiplier) equals the exact product truncated toward  *)
(*     zero; the budget MaxOps keeps the salaries far below that.          *)
(*   - A salary is tagged: the constructor stores whatever it is given,    *)
(*     an int or a str.                                                    *)
(***************************************************************************)
EXTENDS Integers, Sequences, FiniteSets, TLC

VARIABLES
    num_of_emp,     \* Employee.num_of_emp
    raise_amount,   \* the raise_amount entry of each class __dict__ that has one
    objs,           \* heap of Employee / Developer / Manager instances
    lists,          \* heap of list objects (sequences of object indices)
    defaulted,      \* managers whose __init__ took the "employees is None" branch
    last,           \* the call made last: its arguments, what it read, raised, printed, returned
    ops             \* number of calls made so far

vars == <<num_of_emp, raise_amount, objs, lists, defaulted, last, ops>>

----------------------------------------------------------------------------
(* Bounds *)

MaxOps == 3

MaxRaiseOps == 4

MaxMgrOps == 3

MaxNameOps == 2

MaxNameLen == 3

MaxDay == 8

MaxNewSalary == 2

----------------------------------------------------------------------------
(* Values *)

None == <<"<None>">>

NoAttr == "<no attribute>"

Classes == {"Employee", "Developer", "Manager"}

IntVal(n) == [t |-> "int", n |-> n, s |-> <<>>]

StrVal(s) == [t |-> "str", n |-> 0, s |-> s]

\* str(v) as an f-string formats it
Str(v) == IF v = None THEN <<"N", "o", "n", "e">> ELSE v

\* s.split(sep) with an explicit one-character separator: every separator
\* cuts, empty tokens are kept
RECURSIVE Split(_, _)
Split(s, sep) ==
    IF \A i \in 1..Len(s) : s[i] # sep
    THEN <<s>>
    ELSE LET i == CHOOSE k \in 1..Len(s) :
                      s[k] = sep /\ \A j \in 1..(k - 1) : s[j] # sep
         IN  <<SubSeq(s, 1, i - 1)>> \o Split(SubSeq(s, i + 1, Len(s)), sep)

\* x in lst
In(x, lst) == \E i \in 1..Len(lst) : lst[i] = x

\* lst.remove(x) when x is in lst: the first occurrence goes
RemoveFirst(lst, x) ==
    LET i == CHOOSE k \in 1..Len(lst) :
                 lst[k] = x /\ \A j \in 1..(k - 1) : lst[j] # x
    IN  SubSeq(lst, 1, i - 1) \o SubSeq(lst, i + 1, Len(lst))

\* int(x) of the float n/100: the fractional part is dropped
IntOfHundredths(n) == IF n >= 0 THEN n \div 100 ELSE -((-n) \div 100)

\* date.weekday() of the day with proleptic ordinal day: Monday is 0
weekday(day) == (day + 6) % 7

World ==
    [num_of_emp |-> num_of_emp, raise_amount |-> raise_amount, objs |-> objs,
     lists |-> lists, defaulted |-> defaulted]

\* the state right after the two class attributes of Employee are assigned
ClassBody ==
    [num_of_emp |-> 0, raise_amount |-> [Employee |-> 107], objs |-> <<>>,
     lists |-> <<>>, defaulted |-> {}]

\* a call that did nothing yet
Call(op) ==
    [op |-> op, cls |-> "", self |-> 0, emp |-> 0, day |-> 0, text |-> <<>>,
     amount |-> 0, old |-> IntVal(0), m |-> 0, err |-> "", ret |-> FALSE, new |-> 0,
     printed |-> <<>>, again |-> FALSE]

Ok(w) == [w |-> w, err |-> ""]

Raise(w, err) == [w |-> w, err |-> err]

----------------------------------------------------------------------------
(* Employee *)

\* self.num_of_emp += 1 in its place would bind an attribute of the instance
\* and leave the class attribute as it is
CountOnInstance(n) == n

\* Employee.num_of_emp += 1
CountConstruction(n) == n + 1

\* Employee.__init__ run for a new object of class cls
EmployeeInit(w, cls, firstname, lastname, salary) ==
    [w EXCEPT
        !.objs = Append(@, [cls |-> cls, firstname |-> firstname,
                            lastname |-> lastname, salary |-> salary,
                            raise_amount |-> <<>>, prog_language |-> NoAttr,
                            employees |-> 0]),
        !.num_of_emp = CountConstruction(@)]

\* Employee.raise_amount in place of self.raise_amount
RaiseAmountOfEmployee(w, self) == w.raise_amount["Employee"]

\* self.raise_amount: the instance's own attribute, else the one of its
\* class, else the one of Employee
RaiseAmountOf(w, self) ==
    LET o == w.objs[self]
    IN  IF o.raise_amount # <<>> THEN o.raise_amount[1]
        ELSE IF o.cls \in DOMAIN w.raise_amount THEN w.raise_amount[o.cls]
        ELSE w.raise_amount["Employee"]

\* math.floor in place of int
RaisedSalaryFloored(salary, m) == (salary * m) \div 100

\* int(salary * raise_amount) for an int salary
RaisedSalary(salary, m) == IntOfHundredths(salary * m)

\* self.salary = int(self.salary * self.raise_amount); a str salary times a
\* float raises TypeError before anything is assigned
apply_raise(w, self) ==
    LET o == w.objs[self]
    IN  IF o.salary.t = "str"
        THEN Raise(w, "TypeError")
        ELSE Ok([w EXCEPT !.objs[self].salary =
                     IntVal(RaisedSalary(o.salary.n, RaiseAmountOf(w, self)))])

\* the fullname property
fullname(w, self) ==
    Str(w.objs[self].firstname) \o <<" ">> \o Str(w.objs[self].lastname)

\* name.split(' ', 1) in place of name.split(' '): only the first space cuts
FullnameTokensAtFirstSpace(name) ==
    IF \A i \in 1..Len(name) : name[i] # " "
    THEN <<name>>
    ELSE LET i == CHOOSE k \in 1..Len(name) :
                      name[k] = " " /\ \A j \in 1..(k - 1) : name[j] # " "
         IN  <<SubSeq(name, 1, i - 1), SubSeq(name, i + 1, Len(name))>>

\* name.split(' ') in the fullname setter
FullnameTokens(name) == Split(name, " ")

\* the fullname setter: unpacking anything but two tokens raises ValueError
\* before either attribute is assigned
fullname_setter(w, self, name) ==
    LET tokens == FullnameTokens(name)
    IN  IF Len(tokens) # 2
        THEN Raise(w, "ValueError")
        ELSE Ok([w EXCEPT !.objs[self].firstname = tokens[1],
                          !.objs[self].lastname = tokens[2]])

DeleteMsg == <<"D", "e", "l", "e", "t", "e", " ", "n", "a", "m", "e", ".">>

\* the fullname deleter (it also prints DeleteMsg)
fullname_deleter(w, self) ==
    [w EXCEPT !.objs[self].firstname = None, !.objs[self].lastname = None]

\* cls.raise_amount = amount
set_raise_amount(w, cls, amount) ==
    [w EXCEPT !.raise_amount = (cls :> amount) @@ @]

\* day.weekday == n: the bound method itself compared with an int, which
\* are never equal
WeekdayMethodEquals(day, n) == FALSE

\* if day.weekday() == 5 or day.weekday == 6: return False
is_workday(day) ==
    IF weekday(day) = 5 \/ WeekdayMethodEquals(day, 6) THEN FALSE ELSE TRUE

----------------------------------------------------------------------------
(* Developer *)

DeveloperInit(w, firstname, lastname, salary, prog_language) ==
    LET w1 == EmployeeInit(w, "Developer", firstname, lastname, salary)
    IN  [w1 EXCEPT !.objs[Len(w1.objs)].prog_language = prog_language]

----------------------------------------------------------------------------
(* Manager *)

\* employees=[] as the default in place of None: every manager constructed
\* without a list gets the one list object of the default
ManagerEmployeesSharedDefault(w, employees) ==
    IF employees = 0
    THEN IF w.defaulted = {}
         THEN [lists |-> Append(w.lists, <<>>), ref |-> Len(w.lists) + 1]
         ELSE [lists |-> w.lists,
               ref |-> w.objs[CHOOSE o \in w.defaulted : TRUE].employees]
    ELSE [lists |-> w.lists, ref |-> employees]

\* the list object a new manager gets: a new empty list when employees is
\* None (0 here), else the list object passed in
ManagerEmployees(w, employees) ==
    IF employees = 0
    THEN [lists |-> Append(w.lists, <<>>), ref |-> Len(w.lists) + 1]
    ELSE [lists |-> w.lists, ref |-> employees]

ManagerInit(w, firstname, lastname, salary, employees) ==
    LET w1 == EmployeeInit(w, "Manager", firstname, lastname, salary)
        self == Len(w1.objs)
        r == ManagerEmployees(w1, employees)
    IN  [w1 EXCEPT !.lists = r.lists,
                   !.objs[self].employees = r.ref,
                   !.defaulted = IF employees = 0 THEN @ \cup {self} ELSE @]

\* append without the membership test
AddedToUnchecked(lst, emp) == Append(lst, emp)

\* the list after add_emp(emp)
AddedTo(lst, emp) == IF ~In(emp, lst) THEN Append(lst, emp) ELSE lst

add_emp(w, self, emp) ==
    [w EXCEPT !.lists[w.objs[self].employees] = AddedTo(@, emp)]

\* pop() in place of remove(emp): the last element goes
RemovedLast(lst, emp) ==
    IF In(emp, lst) THEN SubSeq(lst, 1, Len(lst) - 1) ELSE lst

\* the list after remove_emp(emp)
RemovedFrom(lst, emp) == IF In(emp, lst) THEN RemoveFirst(lst, emp) ELSE lst

remove_emp(w, self, emp) ==
    [w EXCEPT !.lists[w.objs[self].employees] = RemovedFrom(@, emp)]

\* print("--->", emp.fullname()) for each emp: emp.fullname is the property's
\* str, and calling a str raises TypeError before print is entered
print_emps(w, self) ==
    LET emps == w.lists[w.objs[self].employees]
    IN  IF emps = <<>>
        THEN [printed |-> <<>>, err |-> ""]
        ELSE [printed |-> <<>>, err |-> "TypeError"]

----------------------------------------------------------------------------
(* Alternative constructor *)

\* cls(firstname, lastname, salary) with the three tokens of emp_str:
\* Developer.__init__ lacks its fourth argument, Manager.__init__ gets
\* employees=None; the salary token is passed on as the str it is
from_string(w, cls, emp_str) ==
    LET tokens == Split(emp_str, ",")
    IN  IF Len(tokens) # 3 THEN Raise(w, "ValueError")
        ELSE IF cls = "Developer" THEN Raise(w, "TypeError")
        ELSE IF cls = "Manager"
        THEN Ok(ManagerInit(w, tokens[1], tokens[2], StrVal(tokens[3]), 0))
        ELSE Ok(EmployeeInit(w, cls, tokens[1], tokens[2], StrVal(tokens[3])))

----------------------------------------------------------------------------
(* The module's own constructions: dev_1, dev_2, mgr_1 *)

John == <<"J", "o", "h", "n">>

Doe == <<"D", "o", "e">>

Ann == <<"A", "n", "n">>

Smith == <<"S", "m", "i", "t", "h">>

Joe == <<"J", "o", "e">>

Williams == <<"W", "i", "l", "l", "i", "a", "m", "s">>

\* the list display [o1, o2, ...]: a new list object
ListDisplay(w, contents) == [w EXCEPT !.lists = Append(@, contents)]

Loaded ==
    LET w1 == DeveloperInit(ClassBody, John, Doe, IntVal(60000), "Python")
        w2 == DeveloperInit(w1, Ann, Smith, IntVal(70000), "Java")
        w3 == ListDisplay(w2, <<1>>)
    IN  ManagerInit(w3, Joe, Williams, IntVal(100000), Len(w3.lists))

Init ==
    /\ num_of_emp = Loaded.num_of_emp
    /\ raise_amount = Loaded.raise_amount
    /\ objs = Loaded.objs
    /\ lists = Loaded.lists
    /\ defaulted = Loaded.defaulted
    /\ last = Call("import")
    /\ ops = 0

----------------------------------------------------------------------------
(* Inputs *)

Mary == <<"M", "a", "r", "y">>

Ross == <<"R", "o", "s", "s">>

MaryRoss86000 ==
    <<"M", "a", "r", "y", ",", "R", "o", "s", "s", ",", "8", "6", "0", "0", "0">>

MaryRoss == <<"M", "a", "r", "y", ",", "R", "o", "s", "s">>

EmpStrs == {MaryRoss86000, MaryRoss}

SalaryInputs == (-MaxNewSalary)..MaxNewSalary

\* 1.02, 1.09
Multipliers == {102, 109}

Days == 1..MaxDay

RECURSIVE TextsOfLen(_, _)
TextsOfLen(alphabet, n) ==
    IF n = 0 THEN {<<>>}
    ELSE {Append(t, c) : t \in TextsOfLen(alphabet, n - 1), c \in alphabet}

Texts(alphabet, n) == UNION {TextsOfLen(alphabet, k) : k \in 0..n}

Objects == 1..Len(objs)

Managers == {o \in Objects : objs[o].cls = "Manager"}

----------------------------------------------------------------------------
(* Calls *)

Becomes(w) ==
    /\ num_of_emp' = w.num_of_emp
    /\ raise_amount' = w.raise_amount
    /\ objs' = w.objs
    /\ lists' = w.lists
    /\ defaulted' = w.defaulted

Counted == ops' = ops + 1

\* the record of the call c just made; again: it repeats the call made before
\* it, on the same object with the same arguments
Made(c) ==
    [c EXCEPT !.again = /\ c.op = last.op /\ c.cls = last.cls
                        /\ c.self = last.self /\ c.emp = last.emp
                        /\ c.day = last.day /\ c.text = last.text
                        /\ c.amount = last.amount]

NewEmployee(firstname, lastname, salary) ==
    /\ Counted
    /\ Becomes(EmployeeInit(World, "Employee", firstname, lastname, IntVal(salary)))
    /\ last' = Made([Call("Employee") EXCEPT !.cls = "Employee", !.new = Len(objs) + 1])

NewDeveloper(firstname, lastname, salary, prog_language) ==
    /\ Counted
    /\ Becomes(DeveloperInit(World, firstname, lastname, IntVal(salary), prog_language))
    /\ last' = Made([Call("Developer") EXCEPT !.cls = "Developer", !.new = Len(objs) + 1])

\* Manager(firstname, lastname, salary) and Manager(..., employees) with
\* employees an existing list object
NewManager(firstname, lastname, salary, employees) ==
    /\ Counted
    /\ Becomes(ManagerInit(World, firstname, lastname, IntVal(salary), employees))
    /\ last' = Made([Call("Manager") EXCEPT !.cls = "Manager", !.new = Len(objs) + 1])

\* Manager(..., [o1, o2, ...])
NewManagerOf(firstname, lastname, salary, contents) ==
    /\ Counted
    /\ LET w == ListDisplay(World, contents)
       IN  Becomes(ManagerInit(w, firstname, lastname, IntVal(salary), Len(w.lists)))
    /\ last' = Made([Call("Manager") EXCEPT !.cls = "Manager", !.new = Len(objs) + 1])

FromString(cls, emp_str) ==
    /\ Counted
    /\ LET r == from_string(World, cls, emp_str)
       IN  /\ Becomes(r.w)
           /\ last' = Made([Call("from_string") EXCEPT
                          !.cls = cls, !.text = emp_str, !.err = r.err,
                          !.new = IF r.err = "" THEN Len(objs) + 1 ELSE 0])

ApplyRaise(self) ==
    /\ Counted
    /\ LET r == apply_raise(World, self)
       IN  /\ Becomes(r.w)
           /\ last' = Made([Call("apply_raise") EXCEPT
                          !.self = self, !.err = r.err,
                          !.old = objs[self].salary,
                          !.m = RaiseAmountOf(World, self)])

SetRaiseAmount(cls, amount) ==
    /\ Counted
    /\ Becomes(set_raise_amount(World, cls, amount))
    /\ last' = Made([Call("set_raise_amount") EXCEPT !.cls = cls, !.amount = amount])

\* obj.raise_amount = amount, as in the practice section
SetOwnRaiseAmount(self, amount) ==
    /\ Counted
    /\ Becomes([World EXCEPT !.objs[self].raise_amount = <<amount>>])
    /\ last' = Made([Call("raise_amount=") EXCEPT !.self = self, !.amount = amount])

SetFullname(self, name) ==
    /\ Counted
    /\ LET r == fullname_setter(World, self, name)
       IN  /\ Becomes(r.w)
           /\ last' = Made([Call("fullname=") EXCEPT
                          !.self = self, !.text = name, !.err = r.err])

DelFullname(self) ==
    /\ Counted
    /\ Becomes(fullname_deleter(World, self))
    /\ last' = Made([Call("del fullname") EXCEPT !.self = self, !.printed = <<DeleteMsg>>])

AddEmp(self, emp) ==
    /\ Counted
    /\ Becomes(add_emp(World, self, emp))
    /\ last' = Made([Call("add_emp") EXCEPT !.self = self, !.emp = emp])

RemoveEmp(self, emp) ==
    /\ Counted
    /\ Becomes(remove_emp(World, self, emp))
    /\ last' = Made([Call("remove_emp") EXCEPT !.self = self, !.emp = emp])

PrintEmps(self) ==
    /\ Counted
    /\ Becomes(World)
    /\ LET r == print_emps(World, self)
       IN  last' = Made([Call("print_emps") EXCEPT
                       !.self = self, !.err = r.err, !.printed = r.printed])

IsWorkday(day) ==
    /\ Counted
    /\ Becomes(World)
    /\ last' = Made([Call("is_workday") EXCEPT !.day = day, !.ret = is_workday(day)])

----------------------------------------------------------------------------
(* Every call, with one input of each shape *)

Next ==
    \/ ops < MaxOps /\ \E s \in {86000} : NewEmployee(Mary, Ross, s)
    \/ ops < MaxOps /\ \E s \in {86000} : NewDeveloper(Mary, Ross, s, "Python")
    \/ ops < MaxOps /\ \E s \in {86000}, l \in 0..Len(lists) : NewManager(Mary, Ross, s, l)
    \/ ops < MaxOps /\ \E s \in {86000}, c \in {<<2>>} : NewManagerOf(Mary, Ross, s, c)
    \/ ops < MaxOps /\ \E cls \in Classes, e \in EmpStrs : FromString(cls, e)
    \/ ops < MaxOps /\ \E o \in Objects : ApplyRaise(o)
    \/ ops < MaxOps /\ \E cls \in Classes, m \in {102} : SetRaiseAmount(cls, m)
    \/ ops < MaxOps /\ \E o \in Objects, m \in {109} : SetOwnRaiseAmount(o, m)
    \/ ops < MaxOps /\ \E o \in Objects, n \in {<<"a", " ", "b">>, <<"a", "b">>} : SetFullname(o, n)
    \/ ops < MaxOps /\ \E o \in Objects : DelFullname(o)
    \/ ops < MaxOps /\ \E o \in Managers, e \in Objects : AddEmp(o, e)
    \/ ops < MaxOps /\ \E o \in Managers, e \in Objects : RemoveEmp(o, e)
    \/ ops < MaxOps /\ \E o \in Managers : PrintEmps(o)
    \/ ops < MaxOps /\ \E d \in Days : IsWorkday(d)

Spec == Init /\ [][Next]_vars

----------------------------------------------------------------------------
(* Raises: salaries of either sign, every class and instance multiplier *)

NextRaise ==
    \/ ops < MaxRaiseOps /\ \E s \in SalaryInputs : NewEmployee(Mary, Ross, s)
    \/ ops < MaxRaiseOps /\ \E o \in Objects : ApplyRaise(o)
    \/ ops < MaxRaiseOps /\ \E cls \in Classes, m \in Multipliers : SetRaiseAmount(cls, m)
    \/ ops < MaxRaiseOps /\ \E o \in Objects, m \in Multipliers : SetOwnRaiseAmount(o, m)

SpecRaise == Init /\ [][NextRaise]_vars

----------------------------------------------------------------------------
(* Managers: default, shared and displayed lists *)

ListDisplays == Texts(Objects, 2)

NextMgr ==
    \/ ops < MaxMgrOps /\ \E l \in 0..Len(lists) : NewManager(Mary, Ross, 86000, l)
    \/ ops < MaxMgrOps /\ \E c \in ListDisplays : NewManagerOf(Mary, Ross, 86000, c)
    \/ ops < MaxMgrOps /\ \E o \in Managers, e \in Objects : AddEmp(o, e)
    \/ ops < MaxMgrOps /\ \E o \in Managers, e \in Objects : RemoveEmp(o, e)

SpecMgr == Init /\ [][NextMgr]_vars

----------------------------------------------------------------------------
(* Names: every text over a letter and the space *)

JaneRoe == <<"J", "a", "n", "e", " ", "R", "o", "e">>

FullnameInputs == Texts({"a", " "}, MaxNameLen) \cup {JaneRoe}

NextName ==
    \/ ops < MaxNameOps /\ \E o \in Objects, n \in FullnameInputs : SetFullname(o, n)
    \/ ops < MaxNameOps /\ \E o \in Objects : DelFullname(o)

SpecName == Init /\ [][NextName]_vars

----------------------------------------------------------------------------
(* Properties *)

\* the salary, the own raise_amount and the list of an object
SalaryOf(o) == objs[o].salary

ListOf(o) == lists[objs[o].employees]

NoDuplicates(lst) == \A i, j \in 1..Len(lst) : lst[i] = lst[j] => i = j

\* C1: every construction (by Employee, Developer, Manager or from_string)
\* adds exactly one to Employee.num_of_emp, every other call leaves it as it
\* is, and it never decreases.
C1_CounterCountsConstructions ==
    [][/\ Len(objs') = Len(objs) + 1 => num_of_emp' = num_of_emp + 1
       /\ Len(objs') = Len(objs) => num_of_emp' = num_of_emp
       /\ last'.new # 0 <=> Len(objs') = Len(objs) + 1
       /\ num_of_emp' >= num_of_emp]_vars

\* three constructions after the module's own three, the last by from_string
C1_Witness ==
    /\ last.op = "from_string"
    /\ last.new = 6
    /\ num_of_emp = 6

\* C5 as claimed: is_workday is false on Saturday and on Sunday and true on
\* the five other days.
C5_WeekendIsNoWorkday ==
    last.op = "is_workday" => (last.ret <=> weekday(last.day) \notin {5, 6})

\* int(text) of a text of decimal digits
RECURSIVE DecimalValue(_)
DecimalValue(text) ==
    IF text = <<>> THEN 0
    ELSE LET d == CHOOSE n \in 0..9 :
                      text[Len(text)] = <<"0", "1", "2", "3", "4", "5", "6", "7", "8", "9">>[n + 1]
         IN  10 * DecimalValue(SubSeq(text, 1, Len(text) - 1)) + d

\* C6 as claimed: from_string of "first,last,salary" makes an object with
\* the first two fields as its names and the integer value of the third as
\* its salary.
C6_FromStringSalaryIsNumber ==
    (last.op = "from_string" /\ last.err = "") =>
        LET fields == Split(last.text, ",")
        IN  /\ objs[last.new].firstname = fields[1]
            /\ objs[last.new].lastname = fields[2]
            /\ objs[last.new].salary = IntVal(DecimalValue(fields[3]))

\* C7 as claimed: print_emps completes and prints one line per managed
\* employee, in the order of the list, each with that employee's full name.
C7_PrintEmpsListsFullNames ==
    last.op = "print_emps" =>
        /\ last.err = ""
        /\ Len(last.printed) = Len(ListOf(last.self))
        /\ \A i \in 1..Len(last.printed) :
               last.printed[i] =
                   <<"-", "-", "-", ">", " ">> \o fullname(World, ListOf(last.self)[i])

\* r is x / 100 rounded down
IsFloorOfHundredths(r, x) == 100 * r <= x /\ x < 100 * (r + 1)

\* r is x / 100 with its fractional part dropped
IsTruncationOfHundredths(r, x) ==
    IF x >= 0 THEN r >= 0 /\ 100 * r <= x /\ x < 100 * (r + 1)
    ELSE r <= 0 /\ 100 * (r - 1) < x /\ x <= 100 * r

\* the step is a call of apply_raise on o that returned
Raised(o) ==
    /\ last'.op = "apply_raise"
    /\ last'.self = o
    /\ last'.err = ""

\* C8 as claimed: apply_raise on an integer salary S with multiplier M sets
\* the salary to floor(S * M).
C8_RaiseIsFloor ==
    [][\A o \in Objects :
          (Raised(o) /\ SalaryOf(o).t = "int") =>
              /\ SalaryOf(o)'.t = "int"
              /\ IsFloorOfHundredths(SalaryOf(o)'.n,
                                     SalaryOf(o).n * RaiseAmountOf(World, o))]_vars

\* C8, amended: apply_raise on an integer salary S with multiplier M sets the
\* salary to the integer S * M with its fractional part dropped (rounded
\* toward zero); a second call directly after it, with the same multiplier,
\* does the same to that result; the salary is an integer after every raise.
C8_RaiseIsTruncation ==
    [][\A o \in Objects :
          (Raised(o) /\ SalaryOf(o).t = "int") =>
              /\ SalaryOf(o)'.t = "int"
              /\ IsTruncationOfHundredths(SalaryOf(o)'.n,
                                          SalaryOf(o).n * RaiseAmountOf(World, o))
              /\ (last'.again /\ last.err = "" /\ last'.m = last.m) =>
                     /\ IsTruncationOfHundredths(SalaryOf(o).n, last.old.n * last.m)
                     /\ IsTruncationOfHundredths(SalaryOf(o)'.n, SalaryOf(o).n * last.m)]_vars

\* a second raise in a row of a negative salary whose product is no integer
C8_Witness ==
    /\ last.op = "apply_raise"
    /\ last.again
    /\ last.err = ""
    /\ last.old.n < 0
    /\ (last.old.n * last.m) % 100 # 0
    /\ SalaryOf(last.self).n * 100 > last.old.n * last.m

\* Employee.set_raise_amount has been called: the class attribute is no
\* longer the 1.07 of the class body, which is none of Multipliers
EmployeeAmountSet == raise_amount["Employee"] # ClassBody.raise_amount["Employee"]

HasOwnAmount(o) == objs[o].raise_amount # <<>>

\* the class of o is a subclass that was given a raise_amount of its own
ClassHasOwnAmount(o) ==
    objs[o].cls # "Employee" /\ objs[o].cls \in DOMAIN raise_amount

\* the step is a call of apply_raise on o that used the multiplier m
RaisedBy(o, m) ==
    Raised(o) /\ SalaryOf(o)' = IntVal(RaisedSalary(SalaryOf(o).n, m))

\* C2 as claimed: once Employee.set_raise_amount(m) has been called, a raise
\* of an instance with no raise_amount of its own uses the m of the latest
\* such call, and a raise of an instance with its own raise_amount uses that.
C2_RaiseUsesEmployeeAmount ==
    [][\A o \in Objects :
          (Raised(o) /\ EmployeeAmountSet) =>
              IF HasOwnAmount(o)
              THEN RaisedBy(o, objs[o].raise_amount[1])
              ELSE RaisedBy(o, raise_amount["Employee"])]_vars

\* C2, amended: once Employee.set_raise_amount(m) has been called, a raise
\* of an instance with no raise_amount of its own, and of a class that was
\* not given one of its own by a set_raise_amount call on that subclass,
\* uses the m of the latest such call; an instance of a subclass that was
\* given its own uses the subclass's; an instance with its own raise_amount
\* uses that one, and no set_raise_amount call changes it.
C2_RaiseUsesNearestAmount ==
    [][/\ \A o \in Objects :
              (Raised(o) /\ EmployeeAmountSet) =>
                  IF HasOwnAmount(o)
                  THEN RaisedBy(o, objs[o].raise_amount[1])
                  ELSE IF ClassHasOwnAmount(o)
                  THEN RaisedBy(o, raise_amount[objs[o].cls])
                  ELSE RaisedBy(o, raise_amount["Employee"])
       /\ last'.op = "set_raise_amount" =>
              \A o \in Objects : objs'[o].raise_amount = objs[o].raise_amount]_vars

\* an instance with its own raise_amount, raised by it after
\* Employee.set_raise_amount set another one
C2_Witness ==
    /\ last.op = "apply_raise"
    /\ last.err = ""
    /\ EmployeeAmountSet
    /\ HasOwnAmount(last.self)
    /\ last.m = objs[last.self].raise_amount[1]
    /\ SalaryOf(last.self).n = RaisedSalary(last.old.n, last.m)
    /\ SalaryOf(last.self).n # RaisedSalary(last.old.n, raise_amount["Employee"])

\* the step is a call of add_emp or remove_emp on o
Edits(o) == last'.op \in {"add_emp", "remove_emp"} /\ last'.self = o

\* C3: of two managers constructed without a list, neither's add_emp or
\* remove_emp changes the other's list.
C3_DefaultListsAreIndependent ==
    [][\A a, b \in defaulted :
          (a # b /\ Edits(a)) => ListOf(b)' = ListOf(b)]_vars

\* two managers constructed without a list, the first with an employee
\* added, the second's list still empty
C3_Witness ==
    /\ last.op = "add_emp"
    /\ last.self \in defaulted
    /\ ListOf(last.self) = <<last.emp>>
    /\ \E b \in defaulted : b # last.self /\ ListOf(b) = <<>>

\* C4: add_emp(e) directly after add_emp(e) on the same manager leaves the
\* list as the first call left it.
C4_AddEmpIsIdempotent ==
    [][\A o \in Managers :
          (last.op = "add_emp" /\ last'.op = "add_emp" /\ last'.again
              /\ last'.self = o) =>
              ListOf(o)' = ListOf(o)]_vars

\* the second of two equal add_emp calls, of an employee the first one added
C4_Witness ==
    /\ last.op = "add_emp"
    /\ last.again
    /\ ops = 2
    /\ last.self = 3
    /\ ListOf(3) = <<1, last.emp>>

Spaces(text) == Cardinality({i \in 1..Len(text) : text[i] = " "})

\* C9: assigning fullname a text with no space or with more than one space
\* raises an error and leaves firstname and lastname as they were.
C9_BadFullnameIsRejected ==
    [][\A o \in Objects :
          (last'.op = "fullname=" /\ last'.self = o /\ Spaces(last'.text) # 1) =>
              /\ last'.err # ""
              /\ objs'[o].firstname = objs[o].firstname
              /\ objs'[o].lastname = objs[o].lastname]_vars

\* a text with two spaces refused for an object named before by the setter
C9_Witness ==
    /\ last.op = "fullname="
    /\ last.err = "ValueError"
    /\ Spaces(last.text) = 2
    /\ objs[last.self].firstname = <<"a">>
    /\ objs[last.self].lastname = <<>>

\* lst without emp, the others in their order
Without(lst, emp) == SelectSeq(lst, LAMBDA x : x # emp)

\* C10: a list without duplicates stays without duplicates under every call
\* (so the list of a manager constructed without one, or with one without
\* duplicates, never holds an employee twice), and right after remove_emp(e)
\* on such a list e is not in it and the others are in their order.
C10_NoDuplicatesAndRemoveRemoves ==
    /\ [](\A o \in defaulted : NoDuplicates(ListOf(o)))
    /\ [][/\ \A l \in 1..Len(lists) :
                 NoDuplicates(lists[l]) => NoDuplicates(lists'[l])
          /\ \A o \in Managers :
                 (last'.op = "remove_emp" /\ last'.self = o
                     /\ NoDuplicates(ListOf(o))) =>
                     /\ ~In(last'.emp, ListOf(o)')
                     /\ ListOf(o)' = Without(ListOf(o), last'.emp)]_vars

\* mgr_1 after add_emp(dev_2) and remove_emp(dev_1)
C10_Witness ==
    /\ last.op = "remove_emp"
    /\ ops = 2
    /\ last.self = 3
    /\ last.emp = 1
    /\ ListOf(3) = <<2>>

====
